---------------------------- MODULE Spec2Model ----------------------------
(***************************************************************************)
(* Model of the journal-entry analysis of app.py: analyze_text (keyword    *)
(* matching, sentiment blending, clamping) and the part of main() that     *)
(* turns the risk score into a wellbeing level, a recommendation list and  *)
(* the support-resources block.                                            *)
(*                                                                         *)
(* Texts are sequences of one-character strings.  Numbers are exact        *)
(* rationals held as integers: a compound c is held as 100*c, and every    *)
(* score s (category score, risk score) is held as Scale*s.                *)
(***************************************************************************)
EXTENDS Integers, Sequences, FiniteSets, TLC

VARIABLES
    text_input,       \* content of the "Journal entry" text area
    status,           \* what the page shows: "idle", "shown" or "exception"
    analysis_result,  \* dict returned by analyze_text for the shown analysis
    wellbeing_level,  \* label shown for the analysis
    recommendations,  \* recommendation list shown
    resources,        \* support-resources lines shown
    provider,         \* outcome of the latest sia.polarity_scores call: "returned", "raised", or None
    last_run,         \* history: locals and output of the latest completed analysis
    relation,         \* history: how the latest analysed input relates to the one before
    series_args,      \* arguments of the latest generate_time_series call
    series_status,    \* its outcome: "idle", "returned" or "assert_failed"
    df                \* the DataFrame it returned, as its four columns

journal_vars == <<text_input, status, analysis_result, wellbeing_level,
                  recommendations, resources, provider, last_run, relation>>

series_vars == <<series_args, series_status, df>>

vars == <<journal_vars, series_vars>>

\* Python's None for a label; an absent dict is the empty tuple, a present one <<dict>>
None == "none"
Absent == << >>

(* ----------------------------- bounds --------------------------------- *)

\* the user stops typing once the text area holds this many blanks
MaxWords == 3

\* largest days argument of generate_time_series
MaxDays == 60

(* ------------------------ lexicon (lines 22-28) ------------------------ *)

mental_health_keywords ==
  [
    sleep |-> <<
        <<"s","l","e","e","p">>,
        <<"i","n","s","o","m","n","i","a">>,
        <<"t","i","r","e","d">>,
        <<"e","x","h","a","u","s","t","e","d">>,
        <<"r","e","s","t">>,
        <<"b","e","d">>,
        <<"a","w","a","k","e">>,
        <<"n","a","p">> >>,
    anxiety |-> <<
        <<"w","o","r","r","y">>,
        <<"a","n","x","i","o","u","s">>,
        <<"n","e","r","v","o","u","s">>,
        <<"s","t","r","e","s","s">>,
        <<"p","a","n","i","c">>,
        <<"f","e","a","r">>,
        <<"o","v","e","r","w","h","e","l","m">> >>,
    depression |-> <<
        <<"s","a","d">>,
        <<"d","e","p","r","e","s","s">>,
        <<"e","m","p","t","y">>,
        <<"h","o","p","e","l","e","s","s">>,
        <<"w","o","r","t","h","l","e","s","s">>,
        <<"l","o","n","e","l","y">>,
        <<"n","u","m","b">> >>,
    social |-> <<
        <<"f","r","i","e","n","d">>,
        <<"f","a","m","i","l","y">>,
        <<"p","e","o","p","l","e">>,
        <<"a","l","o","n","e">>,
        <<"i","s","o","l","a","t">>,
        <<"t","a","l","k">>,
        <<"s","o","c","i","a","l">> >>,
    motivation |-> <<
        <<"m","o","t","i","v","a","t">>,
        <<"e","n","e","r","g","y">>,
        <<"i","n","t","e","r","e","s","t">>,
        <<"h","o","b","b","y">>,
        <<"p","a","s","s","i","o","n">>,
        <<"e","n","j","o","y">>,
        <<"e","f","f","o","r","t">> >> ]

Categories == DOMAIN mental_health_keywords

\* common denominator of the scores: 2 (sentiment term), 7 and 8 (list lengths)
Scale == 7 * 8

(* --------------------------- user input -------------------------------- *)

\* what the user can type as one entry; the empty entry is a lone blank, the
\* last one is the sentence "nap bed tired numb empty lonely"
Vocabulary ==
    { <<>>,
      <<"S","a","d">>,
      <<"s","a","d","d","l","e">>,
      <<"i","n","t","e","r","e","s","t">>,
      <<"e","n","j","o","y">>,
      <<
         "n","a","p"," ","b","e","d"," ","t","i","r","e",
         "d"," ","n","u","m","b"," ","e","m","p","t","y",
         " ","l","o","n","e","l","y" >> }

Blank == " "

\* compound values (times 100) the sentiment provider is taken to return
Compounds == {-100, -40, 0, 40, 100}

(* ----------------------- analyze_text (lines 31-64) -------------------- *)

Min(a, b) == IF a < b THEN a ELSE b
Max(a, b) == IF a > b THEN a ELSE b

\* str.lower on one character
LowerChar(ch) ==
    CASE ch = "S" -> "s"
      [] ch = "A" -> "a"
      [] ch = "D" -> "d"
      [] OTHER -> ch

\* line 32: text = text.lower()
Lower(text) == [i \in 1..Len(text) |-> LowerChar(text[i])]

\* line 42: keyword in text  (Python substring test)
KeywordIn(keyword, text) ==
    \E i \in 1..(Len(text) - Len(keyword) + 1) :
        \A j \in 1..Len(keyword) : text[i + j - 1] = keyword[j]

\* line 40 with the score of the previous call carried over
ScoreStartCarried ==
    IF status = "shown" THEN last_run[1].locals.counts["motivation"] ELSE 0

\* line 40: score = 0
ScoreStart == 0

\* lines 40-43: one loop over the keywords of a category
KeywordScore(category, text) ==
    LET keywords == mental_health_keywords[category]
    IN  ScoreStart
          + Cardinality({i \in 1..Len(keywords) : KeywordIn(keywords[i], text)})

\* line 45 without the doubling: min(score / len(keywords), 1.0)
NormalizeNoDoubling(score, n) == Min((score * Scale) \div n, Scale)

\* line 45: min(score / len(keywords) * 2, 1.0), times Scale
Normalize(score, n) == Min((score * 2 * Scale) \div n, Scale)

\* lines 50-54 with motivation taken as a protective factor
WeightNegativeMotivation(category) ==
    CASE category = "depression" -> 15
      [] category = "anxiety"    -> 12
      [] category = "sleep"      -> 10
      [] category = "social"     -> 8
      [] category = "motivation" -> -5

\* lines 50-54: the category weights
Weight(category) ==
    CASE category = "depression" -> 15
      [] category = "anxiety"    -> 12
      [] category = "sleep"      -> 10
      [] category = "social"     -> 8
      [] category = "motivation" -> 5

\* lines 50-54: the keyword part of the sum, times Scale
LexicalSum(category_scores) ==
    category_scores["depression"] * Weight("depression")
      + category_scores["anxiety"] * Weight("anxiety")
      + category_scores["sleep"] * Weight("sleep")
      + category_scores["social"] * Weight("social")
      + category_scores["motivation"] * Weight("motivation")

\* line 49: (1 - sentiment['compound']) * 50, times Scale
SentimentTerm(compound) == (100 - compound) * (Scale \div 2)

\* lines 48-55: risk_score before the clamp, times Scale
RawRisk(compound, category_scores) ==
    SentimentTerm(compound) + LexicalSum(category_scores)

\* line 58 left out
ClampMissing(risk) == risk

\* line 58: max(0, min(100, risk_score)), times Scale
Clamp(risk) == Max(0, Min(100 * Scale, risk))

\* lines 38-43: the value of score at line 45, for every category
CategoryCounts(text) == [c \in Categories |-> KeywordScore(c, text)]

\* lines 45-58: the locals of one call of analyze_text, given the keyword
\* counts of lines 38-43 and the compound that sia.polarity_scores returned
ScoreLocals(text, counts, compound) ==
    LET category_scores ==
            [c \in Categories |->
                Normalize(counts[c], Len(mental_health_keywords[c]))]
        raw == RawRisk(compound, category_scores)
    IN  [ text            |-> text,
          compound        |-> compound,
          counts          |-> counts,
          category_scores |-> category_scores,
          lexical         |-> LexicalSum(category_scores),
          raw             |-> raw,
          risk_score      |-> Clamp(raw) ]

\* lines 32-58: the locals of one call of analyze_text
AnalyzeLocals(text, compound) ==
    ScoreLocals(text, CategoryCounts(Lower(text)), compound)

\* lines 60-64: the dict that analyze_text returns
Returned(locals) ==
    [ sentiment       |-> locals.compound,
      category_scores |-> locals.category_scores,
      risk_score      |-> locals.risk_score ]

\* lines 31-64
analyze_text(text, compound) == Returned(AnalyzeLocals(text, compound))

(* ----------------------- main, tab 1 (lines 239-347) ------------------- *)

Thriving == "Thriving"
Growing  == "Growing Steadily"
Tending  == "Needs Some Tending"
Care     == "In Need of Care"

\* lines 279-290 with the comparisons taken as <=
WellbeingLevelInclusive(risk_score) ==
    IF risk_score <= 30 * Scale THEN Thriving
    ELSE IF risk_score <= 50 * Scale THEN Growing
    ELSE IF risk_score <= 70 * Scale THEN Tending
    ELSE Care

\* lines 279-290: the wellbeing level
WellbeingLevel(risk_score) ==
    IF risk_score < 30 * Scale THEN Thriving
    ELSE IF risk_score < 50 * Scale THEN Growing
    ELSE IF risk_score < 70 * Scale THEN Tending
    ELSE Care

RecThriving ==
    << "Continue to nurture your inner garden with self-care.",
       "Maintain your current practices for a thriving mind.",
       "Use the Growth Chart to track your progress." >>

RecGrowing ==
    << "Practice daily mindfulness to help your roots grow stronger.",
       "Ensure you're getting enough 'sunlight' through social connection.",
       "Review your sleep habits to optimize your rest." >>

RecTending ==
    << "Consider sharing your feelings with a trusted friend.",
       "Establish a consistent sleep schedule to regulate your inner rhythms.",
       "Try incorporating gentle physical activity into your day.",
       "Cultivate gratitude by journaling about what you're thankful for." >>

RecCare ==
    << "**Reach out to a mental health professional for expert guidance.**",
       "Talk to someone you trust about what you're experiencing.",
       "Prioritize sleep, healthy nutrition, and gentle movement.",
       "Use grounding techniques to stay present when feeling overwhelmed.",
       "**Remember, support is available.**" >>

\* lines 309-335 with the comparisons taken as <=
RecommendationsInclusive(risk_score) ==
    IF risk_score <= 30 * Scale THEN RecThriving
    ELSE IF risk_score <= 50 * Scale THEN RecGrowing
    ELSE IF risk_score <= 70 * Scale THEN RecTending
    ELSE RecCare

\* lines 309-335: the recommendation list
Recommendations(risk_score) ==
    IF risk_score < 30 * Scale THEN RecThriving
    ELSE IF risk_score < 50 * Scale THEN RecGrowing
    ELSE IF risk_score < 70 * Scale THEN RecTending
    ELSE RecCare

\* lines 345-347: the three support-resource lines
CrisisResources ==
    << "- **Crisis Text Line**: Text HOME to 741741",
       "- **National Suicide Prevention Lifeline**: 988 or 1-800-273-8255",
       "- **SAMHSA's National Helpline**: 1-800-662-4357" >>

\* line 342 with the comparison taken as >
SupportResourcesStrict(risk_score) ==
    IF risk_score > 70 * Scale THEN CrisisResources ELSE << >>

\* lines 342-347: the support-resources block
SupportResources(risk_score) ==
    IF risk_score >= 70 * Scale THEN CrisisResources ELSE << >>

(* ------------------------------ state ---------------------------------- *)

NumBlanks(text) == Cardinality({i \in 1..Len(text) : text[i] = Blank})

LexiconTerms ==
    UNION { { mental_health_keywords[c][i] : i \in 1..Len(mental_health_keywords[c]) }
            : c \in Categories }

\* later is earlier followed by one lexicon term and a blank
TermAppended(earlier, later) ==
    /\ Len(later) > Len(earlier) + 1
    /\ later[Len(later)] = Blank
    /\ SubSeq(later, 1, Len(earlier)) = earlier
    /\ SubSeq(later, Len(earlier) + 1, Len(later) - 1) \in LexiconTerms

\* how the input of a new call relates to the input of the call before
Relate(text, compound) ==
    IF last_run = Absent THEN "first"
    ELSE IF text = last_run[1].locals.text /\ compound = last_run[1].locals.compound
         THEN "same"
    ELSE IF TermAppended(last_run[1].locals.text, text) THEN "added"
    ELSE "other"

\* lines 230-236: the page with "Use a sample journal entry" unticked: an
\* empty text area and no analysis shown
Init ==
    /\ text_input = << >>
    /\ status = "idle"
    /\ analysis_result = Absent
    /\ wellbeing_level = None
    /\ recommendations = << >>
    /\ resources = << >>
    /\ provider = None
    /\ last_run = Absent
    /\ relation = None
    /\ series_args = Absent
    /\ series_status = "idle"
    /\ df = Absent

\* a rerun of the script without a button press shows no analysis
ClearDisplay ==
    /\ analysis_result' = Absent
    /\ wellbeing_level' = None
    /\ recommendations' = << >>
    /\ resources' = << >>

\* lines 229-236: the user edits the text area (one more entry and a blank)
TypeWord(w) ==
    /\ NumBlanks(text_input) < MaxWords
    /\ text_input' = text_input \o w \o <<Blank>>
    /\ status' = "idle"
    /\ ClearDisplay
    /\ provider' = None
    /\ UNCHANGED <<last_run, relation>>
    /\ UNCHANGED series_vars

\* lines 239-347: "Analyze Text" pressed and sia.polarity_scores returns a
\* compound; the keyword loop of lines 38-43 does not read the compound and
\* is evaluated once for all of them
ClickAnalyze ==
    \E counts \in {CategoryCounts(Lower(text_input))} :
    \E compound \in Compounds :
    \E locals \in {ScoreLocals(text_input, counts, compound)} :
        LET result == Returned(locals)
        IN  /\ analysis_result' = <<result>>
            /\ wellbeing_level' = WellbeingLevel(result.risk_score)
            /\ recommendations' = Recommendations(result.risk_score)
            /\ resources' = SupportResources(result.risk_score)
            /\ status' = "shown"
            /\ provider' = "returned"
            /\ last_run' = << [ locals          |-> locals,
                                wellbeing_level |-> WellbeingLevel(result.risk_score),
                                recommendations |-> Recommendations(result.risk_score),
                                resources       |-> SupportResources(result.risk_score) ] >>
            /\ relation' = Relate(text_input, compound)
            /\ UNCHANGED text_input
            /\ UNCHANGED series_vars

\* lines 239-242, 35: "Analyze Text" pressed and sia.polarity_scores raises;
\* analyze_text has no handler, the exception leaves it and the script run
ClickAnalyzeProviderFails ==
    /\ status' = "exception"
    /\ provider' = "raised"
    /\ ClearDisplay
    /\ UNCHANGED <<text_input, last_run, relation>>
    /\ UNCHANGED series_vars

\* a new browser session runs the script from the top
NewSession ==
    /\ text_input' = << >>
    /\ status' = "idle"
    /\ ClearDisplay
    /\ provider' = None
    /\ last_run' = Absent
    /\ relation' = None
    /\ UNCHANGED series_vars

Next ==
    \/ \E w \in Vocabulary : TypeWord(w)
    \/ ClickAnalyze
    \/ ClickAnalyzeProviderFails
    \/ NewSession

Spec == Init /\ [][Next]_vars

(* ------------------ generate_time_series (lines 67-103) ---------------- *)

\* [value for _ in range(n)]; the random.uniform noise added to every entry
\* is left out, it does not bear on the number of entries
Repeat(value, n) == [i \in 1..n |-> value]

\* lines 68-69: the dates, as days before now, oldest first
Dates(days) == [i \in 1..days |-> days - i]

\* lines 72-73: section1 and section2
Section1(days) == days \div 3
Section2(days) == days \div 3

\* line 74 with the third section taken as a third as well
Section3Third(days) == days \div 3

\* line 74: section3 = days - section1 - section2
Section3(days) == days - Section1(days) - Section2(days)

\* lines 76-93: one column, from the base values of its three sections
\* (declining) or from its one base value (stable)
Column(days, declining, base1, base2, base3, stable) ==
    IF declining
    THEN Repeat(base1, Section1(days))
           \o Repeat(base2, Section2(days))
           \o Repeat(base3, Section3(days))
    ELSE Repeat(stable, days)

\* lines 78-80, 91
SleepHours(days, declining) == Column(days, declining, 7, 6, 5, 7)

\* lines 82-84, 92
MoodScores(days, declining) == Column(days, declining, 80, 65, 50, 75)

\* lines 86-88, 93
SocialScores(days, declining) == Column(days, declining, 75, 60, 40, 70)

\* line 96: the condition of the assert
SameLength(dates, sleep_hours, mood_scores, social_scores) ==
    /\ Len(dates) = Len(sleep_hours)
    /\ Len(sleep_hours) = Len(mood_scores)
    /\ Len(mood_scores) = Len(social_scores)

\* lines 67-103: one call; it returns the DataFrame or fails at the assert
generate_time_series(days, declining) ==
    LET dates == Dates(days)
        sleep_hours == SleepHours(days, declining)
        mood_scores == MoodScores(days, declining)
        social_scores == SocialScores(days, declining)
    IN  /\ series_args' = << [days |-> days, declining |-> declining] >>
        /\ IF SameLength(dates, sleep_hours, mood_scores, social_scores)
           THEN /\ series_status' = "returned"
                /\ df' = << [ Date   |-> dates,
                              Sleep  |-> sleep_hours,
                              Mood   |-> mood_scores,
                              Social |-> social_scores ] >>
           ELSE /\ series_status' = "assert_failed"
                /\ df' = Absent
        /\ UNCHANGED journal_vars

NextSeries ==
    \E days \in 0..MaxDays : \E declining \in BOOLEAN :
        generate_time_series(days, declining)

SpecSeries == Init /\ [][NextSeries]_vars

(* ------------------- properties of the analysis ------------------------ *)

Shown == status = "shown"

\* the values of the shown analysis
ShownRisk == analysis_result[1].risk_score
ShownLocals == last_run[1].locals

\* C1: the risk_score returned by analyze_text lies in [0, 100] for every
\* text and every compound the provider returns.
RiskScoreBounded ==
    Shown => /\ ShownRisk >= 0
             /\ ShownRisk <= 100 * Scale

\* C1 witness: an analysis whose sum at lines 48-55 exceeded 100 was clamped.
RiskScoreClampedReached ==
    /\ Shown
    /\ ShownLocals.raw > 100 * Scale
    /\ ShownRisk = 100 * Scale

\* C2: whenever the analysis shows the level 'In Need of Care' (risk_score
\* >= 70), the three crisis-resource lines are shown with it, word for word.
CrisisResourcesWithTopTier ==
    (Shown /\ (wellbeing_level = "In Need of Care" \/ ShownRisk >= 70 * Scale))
        => resources =
             << "- **Crisis Text Line**: Text HOME to 741741",
                "- **National Suicide Prevention Lifeline**: 988 or 1-800-273-8255",
                "- **SAMHSA's National Helpline**: 1-800-662-4357" >>

\* C2 witness: the top tier is shown at its lowest score, 70.
TopTierAtSeventyReached ==
    /\ Shown
    /\ wellbeing_level = Care
    /\ ShownRisk = 70 * Scale

\* C3: 30, 50 and 70 split [0, 100] into four tiers without gap or overlap,
\* each tier including its lower boundary: a score has exactly one level, and
\* the scores 30, 50 and 70 have the level that starts there.
TierPartition ==
    Shown =>
        /\ wellbeing_level \in {Thriving, Growing, Tending, Care}
        /\ (wellbeing_level = Thriving) <=> (0 <= ShownRisk /\ ShownRisk < 30 * Scale)
        /\ (wellbeing_level = Growing) <=> (30 * Scale <= ShownRisk /\ ShownRisk < 50 * Scale)
        /\ (wellbeing_level = Tending) <=> (50 * Scale <= ShownRisk /\ ShownRisk < 70 * Scale)
        /\ (wellbeing_level = Care) <=> (70 * Scale <= ShownRisk /\ ShownRisk <= 100 * Scale)

\* C3 witness: a score of exactly 50 is shown with the tier that starts at 50.
TierBoundaryReached ==
    /\ Shown
    /\ ShownRisk = 50 * Scale
    /\ wellbeing_level = Tending

\* a text with no character other than blanks (the empty text included)
IsBlankText(text) == \A i \in 1..Len(text) : text[i] = Blank

\* C4: for empty or whitespace-only input with the neutral compound 0.0,
\* analyze_text completes and yields a zero risk score, and the level is the
\* lowest one, 'Thriving'.
BlankInputZeroScoreLowestTier ==
    (Shown /\ IsBlankText(text_input) /\ analysis_result[1].sentiment = 0)
        => /\ ShownRisk = 0
           /\ wellbeing_level = Thriving

\* C5: when sia.polarity_scores fails, analyze_text still returns a result,
\* the one computed with a neutral (0.0) sentiment.
ProviderFailureIsNeutral ==
    provider = "raised"
        => /\ Shown
           /\ analysis_result = <<analyze_text(text_input, 0)>>

\* C6: with a compound of 0.0 the risk score equals the weighted sum of the
\* category scores alone; the sentiment term adds nothing.
NeutralSentimentAddsNothing ==
    (Shown /\ analysis_result[1].sentiment = 0)
        => ShownRisk = ShownLocals.lexical

\* an occurrence of keyword in text at position i that is a whole word: the
\* characters next to it, if any, are not alphanumeric
WholeWordAt(keyword, text, i) ==
    /\ \A j \in 1..Len(keyword) : text[i + j - 1] = keyword[j]
    /\ (i = 1 \/ text[i - 1] = Blank)
    /\ (i + Len(keyword) - 1 = Len(text) \/ text[i + Len(keyword)] = Blank)

WholeWordIn(keyword, text) ==
    \E i \in 1..(Len(text) - Len(keyword) + 1) : WholeWordAt(keyword, text, i)

\* C7: a lexicon term counts as matched only when it occurs in the text as a
\* whole word, never when it occurs only inside a larger alphanumeric token.
MatchesAreWholeWords ==
    Shown =>
        \A c \in Categories :
            ShownLocals.counts[c] =
                Cardinality({ i \in 1..Len(mental_health_keywords[c]) :
                    WholeWordIn(mental_health_keywords[c][i], Lower(text_input)) })

\* the places of the text where a keyword of the category occurs
Occurrences(category, text) ==
    { <<k, i>> \in (1..Len(mental_health_keywords[category])) \X (1..Len(text)) :
        /\ i + Len(mental_health_keywords[category][k]) - 1 <= Len(text)
        /\ \A j \in 1..Len(mental_health_keywords[category][k]) :
              text[i + j - 1] = mental_health_keywords[category][k][j] }

\* C8: the per-category count used for scoring is the number of term
\* occurrences of that category in the text: k occurrences of a term count k.
CountIsNumberOfOccurrences ==
    Shown =>
        \A c \in Categories :
            ShownLocals.counts[c] = Cardinality(Occurrences(c, Lower(text_input)))

\* the later call analysed the text of the earlier one plus one lexicon term
AddsOneOccurrence(earlier, later) ==
    TermAppended(earlier.locals.text, later.locals.text)

\* C9 as stated: adding one more occurrence of a lexicon term to the text
\* never decreases the pre-clamp score that analyze_text computes.
RawScoreMonotone ==
    [][ (/\ last_run # Absent
         /\ last_run' # Absent
         /\ AddsOneOccurrence(last_run[1], last_run'[1]))
        => last_run'[1].locals.raw >= last_run[1].locals.raw ]_vars

\* C9 as amended: adding one more occurrence of a lexicon term, as a word of
\* its own, never decreases the weighted sum of the category scores; the
\* pre-clamp score does not decrease when the compound is the same.
LexicalScoreMonotone ==
    [][ (/\ last_run # Absent
         /\ last_run' # Absent
         /\ AddsOneOccurrence(last_run[1], last_run'[1]))
        => /\ last_run'[1].locals.lexical >= last_run[1].locals.lexical
           /\ (last_run'[1].locals.compound = last_run[1].locals.compound
                 => last_run'[1].locals.raw >= last_run[1].locals.raw) ]_vars

\* C9 witness: the text analysed last is the one analysed before it plus one
\* lexicon term, and that term raised the count of its category.
OccurrenceAddedReached ==
    /\ Shown
    /\ relation = "added"
    /\ ShownLocals.lexical > 0

ListOfLevel(level) ==
    CASE level = Thriving -> RecThriving
      [] level = Growing  -> RecGrowing
      [] level = Tending  -> RecTending
      [] level = Care     -> RecCare

\* C11: within one analysis the recommendation list shown is the one of the
\* level shown, and the support resources are shown if and only if the level
\* shown is 'In Need of Care'.
SameTierSelectsAll ==
    Shown =>
        /\ recommendations = ListOfLevel(wellbeing_level)
        /\ (resources # << >>) <=> (wellbeing_level = "In Need of Care")

\* C11 witness: an analysis with a score of exactly 30 shows the level and
\* the list of the tier that starts at 30, and no support resources.
GrowingTierAtThirtyReached ==
    /\ Shown
    /\ ShownRisk = 30 * Scale
    /\ wellbeing_level = Growing
    /\ recommendations = RecGrowing
    /\ resources = << >>

\* the keywords of a category that the lowered text contains
KeywordsFound(category, text) ==
    { keyword \in { mental_health_keywords[category][i] :
                      i \in 1..Len(mental_health_keywords[category]) } :
        \E i \in 1..Len(text) :
            /\ i + Len(keyword) - 1 <= Len(text)
            /\ \A j \in 1..Len(keyword) : text[i + j - 1] = keyword[j] }

\* C12: every category score returned by analyze_text lies in [0, 1] and is
\* min(2*m/n, 1), m the number of distinct keywords of the category found in
\* the text and n the number of keywords of the category: it is 0 exactly
\* when none is found and 1.0 exactly when at least half of them are found.
CategoryScoreIsNormalizedCount ==
    Shown =>
        \A c \in Categories :
            LET m == Cardinality(KeywordsFound(c, Lower(text_input)))
                n == Len(mental_health_keywords[c])
                score == analysis_result[1].category_scores[c]
            IN  /\ 0 <= score /\ score <= Scale
                /\ score * n = Min(2 * m, n) * Scale
                /\ (score = 0) <=> (m = 0)
                /\ (score = Scale) <=> (2 * m >= n)

\* C12 witness: exactly half of the eight sleep keywords are found and the
\* sleep score is 1.0, while three of the seven depression keywords give 6/7.
HalfOfKeywordsSaturatesReached ==
    /\ Shown
    /\ ShownLocals.counts["sleep"] = 4
    /\ analysis_result[1].category_scores["sleep"] = Scale
    /\ ShownLocals.counts["depression"] = 3
    /\ analysis_result[1].category_scores["depression"] * 7 = 6 * Scale

\* C13: for every non-negative days and both values of declining,
\* generate_time_series builds the Date, Sleep, Mood and Social columns with
\* exactly `days` entries each (the three sections sum to days), and the
\* 'Array length mismatch' assertion never fails.
SeriesColumnsHaveDaysEntries ==
    /\ series_status # "assert_failed"
    /\ series_status = "returned" =>
          LET days == series_args[1].days
          IN  /\ Len(df[1].Date) = days
              /\ Len(df[1].Sleep) = days
              /\ Len(df[1].Mood) = days
              /\ Len(df[1].Social) = days
              /\ (days \div 3) + (days \div 3) + (days - 2 * (days \div 3)) = days

\* C13 witness: a declining series was returned for a number of days that is
\* not a multiple of three, its last section being the longest.
UnevenDecliningSeriesReached ==
    /\ series_status = "returned"
    /\ series_args[1].declining
    /\ series_args[1].days % 3 = 2
    /\ Len(df[1].Sleep) = series_args[1].days
    /\ Cardinality({i \in 1..Len(df[1].Sleep) : df[1].Sleep[i] = 5})
         = (series_args[1].days \div 3) + 2

=============================================================================
